---- MODULE Spec2Model ----
(***************************************************************************)
(* DCGAN generator and discriminator builders of torchgan/models/dcgan.py. *)
(* A builder object is constructed step by step by its __init__; the heap  *)
(* of framework objects (convolutions, normalizations, activations,        *)
(* Sequential containers) is a counter of allocated object identities.     *)
(* forward() is a fold of the published model over a tensor shape.         *)
(***************************************************************************)
EXTENDS Integers, Sequences, FiniteSets, TLC

VARIABLES gen, disc, nextId, raised, tensor

vars == <<gen, disc, nextId, raised, tensor>>

----------------------------------------------------------------------------
(* Bounds of the model and the program's constants.                        *)

MaxSize == 130
MaxBatch == 2

MinSize == 16
Kernel == 4
DefaultEnc == 100
DefaultChannels == 3
DefaultStep == 64

(* A null reference (the None default of nonlinearity/last_nonlinearity).  *)
None == 0

(* Activation objects the caller constructed before any build.             *)
CallerActs == {1}
FirstFreeId == Cardinality(CallerActs) + 1

Batches == 1..MaxBatch
Channels == {1, DefaultChannels}

(* The shape of a tensor no layer accepted (a framework shape error).      *)
ShapeError == <<>>

----------------------------------------------------------------------------
(* Integer helpers of the size check.  bit_length is that of the absolute  *)
(* value, as Python's.                                                     *)

RECURSIVE bit_length(_)
bit_length(n) ==
    IF n = 0 THEN 0
    ELSE IF n < 0 THEN bit_length(0 - n)
    ELSE 1 + bit_length(n \div 2)

RECURSIVE FloorLog2(_)
FloorLog2(n) == IF n <= 1 THEN 0 ELSE 1 + FloorLog2(n \div 2)

(* ceil(log2(n)) for n >= 1.                                               *)
CeilLog2(n) == IF n <= 1 THEN 0 ELSE 1 + FloorLog2(n - 1)

(* ceil(log2(n)) != log2(n): log2(n) is not an integer, that is, its       *)
(* ceiling and its floor differ.                                           *)
Log2NotInteger(n) == CeilLog2(n) # FloorLog2(n)

InvalidSizeOffByOne(size) == IF size <= MinSize THEN TRUE ELSE Log2NotInteger(size)

(* The condition of the raise, evaluated left to right.                    *)
InvalidSize(size) == IF size < MinSize THEN TRUE ELSE Log2NotInteger(size)

NumRepeatsLog2Minus4(size) == FloorLog2(size) - 4

NumRepeats(size) == bit_length(size) - 4

RECURSIVE Pow2(_)
Pow2(k) == IF k <= 0 THEN 1 ELSE 2 * Pow2(k - 1)

InitialDepthNoScale(n, num_repeats) == n

(* d = int(self.n * (2 ** num_repeats))                                    *)
InitialDepth(n, num_repeats) == n * Pow2(num_repeats)

Halve(d) == d \div 2

DoubleOffByOne(d) == d * 2 + 1

Double(d) == d * 2

----------------------------------------------------------------------------
(* Blocks: one nn.Sequential(conv, [norm], activation) of the model list.  *)
(* conv, norm, act and seq are object identities; norm = None when the     *)
(* block has no BatchNorm2d.  Objects are allocated in the order Python    *)
(* evaluates the constructor calls: conv, then norm, then the container.   *)

Block(kind, in, out, stride, padding, bias, batchnorm, act, id) ==
    [kind |-> kind, in |-> in, out |-> out, kernel |-> Kernel,
     stride |-> stride, padding |-> padding, bias |-> bias,
     conv |-> id,
     norm |-> IF batchnorm THEN id + 1 ELSE None,
     features |-> IF batchnorm THEN out ELSE 0,
     act |-> act,
     seq |-> IF batchnorm THEN id + 2 ELSE id + 1]

BlockObjectsShared(batchnorm) == 1

(* Number of objects one block allocates.                                  *)
BlockObjects(batchnorm) == IF batchnorm THEN 3 ELSE 2

GenExpansionBiased(enc, d, use_bias, batchnorm, nl, id) ==
    Block("ConvTranspose2d", enc, d, 1, 0, TRUE, batchnorm, nl, id)

GenExpansion(enc, d, use_bias, batchnorm, nl, id) ==
    Block("ConvTranspose2d", enc, d, 1, 0, use_bias, batchnorm, nl, id)

GenRepeat(d, use_bias, batchnorm, nl, id) ==
    Block("ConvTranspose2d", d, Halve(d), 2, 1, use_bias, batchnorm, nl, id)

GenLastStride1(d, ch, last_nl, id) ==
    Block("ConvTranspose2d", d, ch, 1, 1, TRUE, FALSE, last_nl, id)

GenLast(d, ch, last_nl, id) ==
    Block("ConvTranspose2d", d, ch, 2, 1, TRUE, FALSE, last_nl, id)

DiscFirstBlockWrongIn(input_dims, d, nl, id) ==
    Block("Conv2d", d, d, 2, 1, TRUE, FALSE, nl, id)

DiscFirstBlock(input_dims, d, nl, id) ==
    Block("Conv2d", input_dims, d, 2, 1, TRUE, FALSE, nl, id)

DiscRepeat(d, use_bias, batchnorm, nl, id) ==
    Block("Conv2d", d, Double(d), 2, 1, use_bias, batchnorm, nl, id)

DiscLastPadded(d, use_bias, last_nl, id) ==
    Block("Conv2d", d, 1, 1, 1, use_bias, FALSE, last_nl, id)

DiscLast(d, use_bias, last_nl, id) ==
    Block("Conv2d", d, 1, 1, 0, use_bias, FALSE, last_nl, id)

----------------------------------------------------------------------------
(* Forward evaluation on shapes <<batch, channels, height, width>>.        *)

ConvTranspose2dSide(s, L) == (s - 1) * L.stride - 2 * L.padding + L.kernel

Conv2dSide(s, L) == (s + 2 * L.padding - L.kernel) \div L.stride + 1

(* One block applied to a shape: the convolution rejects a channel         *)
(* mismatch and an input smaller than its kernel, the normalization a      *)
(* feature mismatch; the activation keeps the shape.                       *)
ApplyBlock(x, L) ==
    IF x = ShapeError \/ Len(x) # 4 THEN ShapeError
    ELSE IF x[2] # L.in THEN ShapeError
    ELSE IF L.kind = "Conv2d" /\ (x[3] + 2 * L.padding < L.kernel
                                  \/ x[4] + 2 * L.padding < L.kernel)
         THEN ShapeError
    ELSE IF L.norm # None /\ L.features # L.out THEN ShapeError
    ELSE IF L.kind = "Conv2d"
         THEN <<x[1], L.out, Conv2dSide(x[3], L), Conv2dSide(x[4], L)>>
         ELSE <<x[1], L.out, ConvTranspose2dSide(x[3], L),
                ConvTranspose2dSide(x[4], L)>>

RECURSIVE Sequential(_, _)
Sequential(model, x) ==
    IF model = <<>> THEN x
    ELSE Sequential(Tail(model), ApplyBlock(x, Head(model)))

(* The shapes the blocks of a model receive, in order.                     *)
RECURSIVE BlockInputs(_, _)
BlockInputs(model, x) ==
    IF model = <<>> THEN <<>>
    ELSE <<x>> \o BlockInputs(Tail(model), ApplyBlock(x, Head(model)))

(* x.view(-1, x.size(1), 1, 1) of a [batch, features] input, then the      *)
(* model.                                                                  *)
GeneratorForward(model, x) ==
    Sequential(model, <<x[1], x[2], 1, 1>>)

(* self.model(x), then x.view(x.size(0),): the view exists only when the   *)
(* result holds one element per sample.                                    *)
DiscriminatorForward(model, x) ==
    LET y == Sequential(model, x)
    IN  IF y = ShapeError THEN ShapeError
        ELSE IF y[2] * y[3] * y[4] # 1 THEN ShapeError
        ELSE <<y[1]>>

----------------------------------------------------------------------------
(* Arguments of the two constructors (label_type goes to the base class).  *)

Activations == {None} \cup CallerActs

GenArgs(sizes, encs, steps) ==
    [encoding_dims : encs, out_size : sizes, out_channels : Channels,
     step_channels : steps, batchnorm : BOOLEAN,
     nonlinearity : Activations, last_nonlinearity : Activations]

DiscArgs(sizes, steps) ==
    [in_size : sizes, in_channels : Channels, step_channels : steps,
     batchnorm : BOOLEAN,
     nonlinearity : Activations, last_nonlinearity : Activations]

NoGenArgs ==
    [encoding_dims |-> 0, out_size |-> 0, out_channels |-> 0,
     step_channels |-> 0, batchnorm |-> FALSE,
     nonlinearity |-> None, last_nonlinearity |-> None]

NoDiscArgs ==
    [in_size |-> 0, in_channels |-> 0, step_channels |-> 0,
     batchnorm |-> FALSE, nonlinearity |-> None, last_nonlinearity |-> None]

(* A generator object: pc is the position of its __init__ ("none": no      *)
(* object; "done": constructed), args the call's arguments, layers the     *)
(* local list `model`, model the attribute self.model (<<>>: not set).     *)
NoGenerator ==
    [pc |-> "none", args |-> NoGenArgs, encoding_dims |-> 0, ch |-> 0,
     n |-> 0, use_bias |-> FALSE, nl |-> None, last_nl |-> None,
     num_repeats |-> 0, d |-> 0, i |-> 0, layers |-> <<>>, model |-> <<>>]

NoDiscriminator ==
    [pc |-> "none", args |-> NoDiscArgs, input_dims |-> 0,
     n |-> 0, use_bias |-> FALSE, nl |-> None, last_nl |-> None,
     num_repeats |-> 0, d |-> 0, i |-> 0, layers |-> <<>>, model |-> <<>>]

NoTensor == [op |-> "none", input |-> <<>>, output |-> <<>>]

(* Construction and evaluation are synchronous: nothing else runs while a  *)
(* constructor is running.                                                 *)
Idle == gen.pc \in {"none", "done"} /\ disc.pc \in {"none", "done"}

Init ==
    /\ gen = NoGenerator
    /\ disc = NoDiscriminator
    /\ nextId = FirstFreeId
    /\ raised = "none"
    /\ tensor = NoTensor

----------------------------------------------------------------------------
(* DCGANGenerator.__init__                                                 *)

(* The call and the base-class constructor, which stores encoding_dims.    *)
GenCall(args, solo) ==
    /\ Idle
    /\ gen.pc = "none"
    /\ solo => disc.pc = "none"
    /\ \E a \in args :
          gen' = [NoGenerator EXCEPT !.pc = "check", !.args = a,
                                     !.encoding_dims = a.encoding_dims]
    /\ raised' = "none"
    /\ UNCHANGED <<disc, nextId, tensor>>

(* The fresh-or-supplied activation and the identities left after it.      *)
ActivationOf(supplied, id) == IF supplied = None THEN id ELSE supplied

AfterActivation(supplied, id) == IF supplied = None THEN id + 1 ELSE id

GenSetup ==
    LET a == gen.args
        reps == NumRepeats(a.out_size)
        id1 == AfterActivation(a.nonlinearity, nextId)
    IN  /\ gen' = [gen EXCEPT
                     !.pc = "first",
                     !.num_repeats = reps,
                     !.ch = a.out_channels,
                     !.n = a.step_channels,
                     !.use_bias = ~a.batchnorm,
                     !.nl = ActivationOf(a.nonlinearity, nextId),
                     !.last_nl = ActivationOf(a.last_nonlinearity, id1),
                     !.layers = <<>>,
                     !.d = InitialDepth(a.step_channels, reps)]
        /\ nextId' = AfterActivation(a.last_nonlinearity, id1)
        /\ UNCHANGED raised

GenCheckLate ==
    /\ gen.pc = "check"
    /\ IF InvalidSize(gen.args.out_size)
       THEN /\ gen' = NoGenerator
            /\ raised' = "generator"
            /\ nextId' = AfterActivation(gen.args.last_nonlinearity,
                            AfterActivation(gen.args.nonlinearity, nextId))
       ELSE GenSetup
    /\ UNCHANGED <<disc, tensor>>

(* The size check, and on success the locals up to d.  The exception       *)
(* leaves no object behind: the caller never receives the instance.        *)
GenCheck ==
    /\ gen.pc = "check"
    /\ IF InvalidSize(gen.args.out_size)
       THEN /\ gen' = NoGenerator
            /\ raised' = "generator"
            /\ UNCHANGED nextId
       ELSE GenSetup
    /\ UNCHANGED <<disc, tensor>>

(* The expansion block, in either branch of `if batchnorm is True`.        *)
GenFirst ==
    /\ gen.pc = "first"
    /\ gen' = [gen EXCEPT
                 !.pc = "loop",
                 !.i = 0,
                 !.layers = Append(gen.layers,
                     GenExpansion(gen.encoding_dims, gen.d, gen.use_bias,
                                  gen.args.batchnorm, gen.nl, nextId))]
    /\ nextId' = nextId + BlockObjects(gen.args.batchnorm)
    /\ UNCHANGED <<disc, raised, tensor>>

(* One iteration of `for i in range(num_repeats)`.                         *)
GenLoop ==
    /\ gen.pc = "loop"
    /\ gen.i < gen.num_repeats
    /\ gen' = [gen EXCEPT
                 !.i = gen.i + 1,
                 !.d = Halve(gen.d),
                 !.layers = Append(gen.layers,
                     GenRepeat(gen.d, gen.use_bias, gen.args.batchnorm,
                               gen.nl, nextId))]
    /\ nextId' = nextId + BlockObjects(gen.args.batchnorm)
    /\ UNCHANGED <<disc, raised, tensor>>

(* The final block, after the loop.                                        *)
GenFinal ==
    /\ gen.pc = "loop"
    /\ gen.i >= gen.num_repeats
    /\ gen' = [gen EXCEPT
                 !.pc = "publish",
                 !.layers = Append(gen.layers,
                     GenLast(gen.d, gen.ch, gen.last_nl, nextId))]
    /\ nextId' = nextId + BlockObjects(FALSE)
    /\ UNCHANGED <<disc, raised, tensor>>

(* self.model is assigned the Sequential of the local list; the weight     *)
(* initializer changes no structure.                                       *)
GenPublish ==
    /\ gen.pc = "publish"
    /\ gen' = [gen EXCEPT !.pc = "done", !.model = gen.layers]
    /\ UNCHANGED <<disc, nextId, raised, tensor>>

(* forward(x) on a [batch, features] input.                                *)
GenForward(encs) ==
    /\ Idle
    /\ gen.pc = "done"
    /\ \E b \in Batches, e \in encs :
          tensor' = [op |-> "G", input |-> <<b, e>>,
                     output |-> GeneratorForward(gen.model, <<b, e>>)]
    /\ UNCHANGED <<gen, disc, nextId, raised>>

----------------------------------------------------------------------------
(* DCGANDiscriminator.__init__                                             *)

(* The call and the base-class constructor, which stores in_channels as    *)
(* input_dims.                                                             *)
DiscCall(args, solo) ==
    /\ Idle
    /\ disc.pc = "none"
    /\ solo => gen.pc = "none"
    /\ \E a \in args :
          disc' = [NoDiscriminator EXCEPT !.pc = "check", !.args = a,
                                          !.input_dims = a.in_channels]
    /\ raised' = "none"
    /\ UNCHANGED <<gen, nextId, tensor>>

(* The size check, and on success the locals up to d.                      *)
DiscCheck ==
    /\ disc.pc = "check"
    /\ IF InvalidSize(disc.args.in_size)
       THEN /\ disc' = NoDiscriminator
            /\ raised' = "discriminator"
            /\ UNCHANGED nextId
       ELSE LET a == disc.args
                id1 == AfterActivation(a.nonlinearity, nextId)
            IN  /\ disc' = [disc EXCEPT
                              !.pc = "first",
                              !.num_repeats = NumRepeats(a.in_size),
                              !.n = a.step_channels,
                              !.use_bias = ~a.batchnorm,
                              !.nl = ActivationOf(a.nonlinearity, nextId),
                              !.last_nl = ActivationOf(a.last_nonlinearity, id1),
                              !.d = a.step_channels]
                /\ nextId' = AfterActivation(a.last_nonlinearity, id1)
                /\ UNCHANGED raised
    /\ UNCHANGED <<gen, tensor>>

(* The list starts with the contraction block.                             *)
DiscFirst ==
    /\ disc.pc = "first"
    /\ disc' = [disc EXCEPT
                  !.pc = "loop",
                  !.i = 0,
                  !.layers = <<DiscFirstBlock(disc.input_dims, disc.d,
                                              disc.nl, nextId)>>]
    /\ nextId' = nextId + BlockObjects(FALSE)
    /\ UNCHANGED <<gen, raised, tensor>>

(* One iteration of `for i in range(num_repeats)`.                         *)
DiscLoop ==
    /\ disc.pc = "loop"
    /\ disc.i < disc.num_repeats
    /\ disc' = [disc EXCEPT
                  !.i = disc.i + 1,
                  !.d = Double(disc.d),
                  !.layers = Append(disc.layers,
                      DiscRepeat(disc.d, disc.use_bias, disc.args.batchnorm,
                                 disc.nl, nextId))]
    /\ nextId' = nextId + BlockObjects(disc.args.batchnorm)
    /\ UNCHANGED <<gen, raised, tensor>>

(* The final block, after the loop.                                        *)
DiscFinal ==
    /\ disc.pc = "loop"
    /\ disc.i >= disc.num_repeats
    /\ disc' = [disc EXCEPT
                  !.pc = "publish",
                  !.layers = Append(disc.layers,
                      DiscLast(disc.d, disc.use_bias, disc.last_nl, nextId))]
    /\ nextId' = nextId + BlockObjects(FALSE)
    /\ UNCHANGED <<gen, raised, tensor>>

DiscPublish ==
    /\ disc.pc = "publish"
    /\ disc' = [disc EXCEPT !.pc = "done", !.model = disc.layers]
    /\ UNCHANGED <<gen, nextId, raised, tensor>>

(* Image batches a caller may hand to the discriminator.                   *)
Images(sides) ==
    {<<b, c, s, s>> : b \in Batches, c \in Channels, s \in sides}

(* forward(x) on an image batch of the caller.                             *)
DiscForward(sides) ==
    /\ Idle
    /\ disc.pc = "done"
    /\ \E x \in Images(sides) :
          tensor' = [op |-> "D", input |-> x,
                     output |-> DiscriminatorForward(disc.model, x)]
    /\ UNCHANGED <<gen, disc, nextId, raised>>

(* forward(x) on the batch the generator just produced.                    *)
DiscForwardGenerated ==
    /\ Idle
    /\ disc.pc = "done"
    /\ tensor.op = "G"
    /\ tensor.output # ShapeError
    /\ tensor' = [op |-> "DG", input |-> tensor.output,
                  output |-> DiscriminatorForward(disc.model, tensor.output)]
    /\ UNCHANGED <<gen, disc, nextId, raised>>

----------------------------------------------------------------------------
(* Two environments.  Spec: a caller that constructs a generator and a     *)
(* discriminator, in either order, and evaluates them.  SpecWide: a caller *)
(* that constructs one model, over every size up to MaxSize.               *)

PairSizes == {MinSize \div 2, MinSize, 2 * MinSize}
PairSteps == {1, 3}
PairEncs == {DefaultEnc}
PairSides == {MinSize, 2 * MinSize}

WideSizes == (0 - 2)..MaxSize
WideSteps == {1, 3, DefaultStep}
WideEncs == {2, DefaultEnc}
WideSides == {s \in MinSize..MaxSize : \E k \in 4..30 : 2^k = s}

Next ==
    \/ GenCall(GenArgs(PairSizes, PairEncs, PairSteps), FALSE)
    \/ GenCheck
    \/ GenFirst
    \/ GenLoop
    \/ GenFinal
    \/ GenPublish
    \/ GenForward(PairEncs)
    \/ DiscCall(DiscArgs(PairSizes, PairSteps), FALSE)
    \/ DiscCheck
    \/ DiscFirst
    \/ DiscLoop
    \/ DiscFinal
    \/ DiscPublish
    \/ DiscForward(PairSides)
    \/ DiscForwardGenerated

Spec == Init /\ [][Next]_vars

NextWide ==
    \/ GenCall(GenArgs(WideSizes, WideEncs, WideSteps), TRUE)
    \/ GenCheck
    \/ GenFirst
    \/ GenLoop
    \/ GenFinal
    \/ GenPublish
    \/ GenForward(WideEncs)
    \/ DiscCall(DiscArgs(WideSizes, WideSteps), TRUE)
    \/ DiscCheck
    \/ DiscFirst
    \/ DiscLoop
    \/ DiscFinal
    \/ DiscPublish
    \/ DiscForward(WideSides)

SpecWide == Init /\ [][NextWide]_vars

----------------------------------------------------------------------------
(* Vocabulary of the properties.                                           *)

IsPowerOfTwo(n) == \E k \in 0..30 : 2^k = n

ExactLog2(n) == CHOOSE k \in 0..30 : 2^k = n

BadSize(size) == size < 16 \/ ~IsPowerOfTwo(size)

GenChecked == gen.pc \in {"first", "loop", "publish", "done"}

DiscChecked == disc.pc \in {"first", "loop", "publish", "done"}

(* C1: in both constructors the size check raises exactly when the size is *)
(* below 16 or not an exact power of two; it raises for 8, 15, 17 and 33   *)
(* and passes 16, 32, 64 and 128.                                          *)
C1_CheckOutcome(size, raises) ==
    /\ raises <=> BadSize(size)
    /\ size \in {8, 15, 17, 33} => raises
    /\ size \in {16, 32, 64, 128} => ~raises

C2_RepeatsOf(b, size, offset) ==
    /\ b.num_repeats = ExactLog2(size) - offset
    /\ size = 16 => b.num_repeats = 4 - offset
    /\ size = 32 => b.num_repeats = 5 - offset
    /\ size = 64 => b.num_repeats = 6 - offset
    /\ size = 128 => b.num_repeats = 7 - offset
    /\ b.pc = "done" => Len(b.model) = b.num_repeats + 2

C2_Original ==
    /\ GenChecked => C2_RepeatsOf(gen, gen.args.out_size, 4)
    /\ DiscChecked => C2_RepeatsOf(disc, disc.args.in_size, 4)

(* C2 amended: num_repeats = log2(size) - 3, that is 1, 2, 3, 4 for        *)
(* 16, 32, 64, 128, and a constructed model has num_repeats + 2 blocks.    *)
C2_Repeats ==
    /\ GenChecked => C2_RepeatsOf(gen, gen.args.out_size, 3)
    /\ DiscChecked => C2_RepeatsOf(disc, disc.args.in_size, 3)

C2_Witness ==
    /\ gen.pc = "done"
    /\ gen.args.out_size = 128
    /\ gen.num_repeats = 4
    /\ Len(gen.model) = 6

(* C3: the generator maps a [batch, encoding_dims] input to a tensor of    *)
(* shape [batch, out_channels, out_size, out_size].                        *)
C3_GeneratorShape ==
    tensor.op = "G" /\ tensor.input[2] = gen.encoding_dims
        => tensor.output = <<tensor.input[1], gen.args.out_channels,
                             gen.args.out_size, gen.args.out_size>>

C3_Witness ==
    /\ tensor.op = "G"
    /\ tensor.input = <<2, 100>>
    /\ gen.args.out_size = 32
    /\ gen.args.out_channels = 3
    /\ tensor.output = <<2, 3, 32, 32>>

(* C4: the discriminator maps a [batch, in_channels, in_size, in_size]     *)
(* input to one channel of side 1, flattened to [batch]; no block receives *)
(* a side smaller than its kernel.                                         *)
C4_DiscriminatorShape ==
    tensor.op = "D"
    /\ tensor.input = <<tensor.input[1], disc.input_dims,
                        disc.args.in_size, disc.args.in_size>>
        => /\ Sequential(disc.model, tensor.input) = <<tensor.input[1], 1, 1, 1>>
           /\ tensor.output = <<tensor.input[1]>>
           /\ \A j \in 1..Len(disc.model) :
                 LET x == BlockInputs(disc.model, tensor.input)[j]
                 IN  x # ShapeError /\ x[3] >= disc.model[j].kernel
                                    /\ x[4] >= disc.model[j].kernel

C4_Witness ==
    /\ tensor.op = "D"
    /\ disc.args.in_size = 32
    /\ tensor.input = <<2, 3, 32, 32>>
    /\ tensor.output = <<2>>

(* C5: the output of a generator built with (size, channels) is the input  *)
(* a discriminator built with the same (size, channels) expects, and       *)
(* passes through every block of it to a result of shape [batch], whatever *)
(* step_channels either was built with.                                    *)
C5_Compatible ==
    /\ gen.pc = "done"
    /\ disc.pc = "done"
    /\ gen.args.out_size = disc.args.in_size
    /\ gen.args.out_channels = disc.args.in_channels

C5_RoundTrip ==
    tensor.op = "DG" /\ C5_Compatible
        => /\ tensor.input = <<tensor.input[1], disc.input_dims,
                               disc.args.in_size, disc.args.in_size>>
           /\ \A j \in 1..Len(disc.model) :
                 LET x == BlockInputs(disc.model, tensor.input)[j]
                 IN  x # ShapeError /\ x[2] = disc.model[j].in
           /\ tensor.output = <<tensor.input[1]>>

C5_Witness ==
    /\ tensor.op = "DG"
    /\ C5_Compatible
    /\ gen.args.step_channels # disc.args.step_channels
    /\ gen.args.out_size = 32
    /\ tensor.output = <<2>>

(* C6: the generator's expansion block outputs step_channels *             *)
(* 2^num_repeats channels; every repeat block takes the previous block's   *)
(* output channels and outputs exactly half of them; the last repeat       *)
(* block outputs step_channels, which the final block takes.               *)
C6_RepeatBlocks(b) ==
    IF b.pc = "loop" THEN 2..Len(b.layers) ELSE 2..(Len(b.layers) - 1)

C7_DiscriminatorDepth ==
    disc.pc \in {"loop", "publish", "done"}
        => /\ disc.layers[1].in = disc.args.in_channels
           /\ disc.layers[1].out = disc.args.step_channels
           /\ \A j \in C6_RepeatBlocks(disc) :
                 /\ disc.layers[j].in = disc.layers[j - 1].out
                 /\ disc.layers[j].out = 2 * disc.layers[j].in
           /\ disc.pc \in {"publish", "done"}
                 => LET last == Len(disc.layers)
                    IN  /\ last = disc.num_repeats + 2
                        /\ disc.layers[last].in = disc.layers[last - 1].out
                        /\ disc.layers[last].in
                              = disc.args.step_channels * 2^disc.num_repeats
                        /\ disc.layers[last].out = 1

C7_Witness ==
    /\ disc.pc = "done"
    /\ disc.args.step_channels = 3
    /\ disc.num_repeats = 4
    /\ disc.model[5].out = 48
    /\ disc.model[6].in = 48

(* C8: the generator's final block and the discriminator's first block     *)
(* have a bias whatever batchnorm is; every other block has a bias exactly *)
(* when batchnorm is false.                                                *)
C8_BiasAsymmetry ==
    /\ gen.pc = "done"
          => \A j \in 1..Len(gen.model) :
                gen.model[j].bias
                    <=> (j = Len(gen.model) \/ ~gen.args.batchnorm)
    /\ disc.pc = "done"
          => \A j \in 1..Len(disc.model) :
                disc.model[j].bias <=> (j = 1 \/ ~disc.args.batchnorm)

C8_Witness ==
    /\ gen.pc = "done"
    /\ disc.pc = "done"
    /\ gen.args.batchnorm
    /\ ~disc.args.batchnorm
    /\ ~gen.model[1].bias
    /\ disc.model[Len(disc.model)].bias

(* C9: a constructor that fails the size check has created no block or     *)
(* activation and leaves no model, not even a partial one; self.model is   *)
(* set only by a constructor that ran to its end, and then holds all       *)
(* num_repeats + 2 blocks.                                                 *)
BlockIds(L) ==
    {L.conv, L.act, L.seq} \cup (IF L.norm = None THEN {} ELSE {L.norm})

HeldBy(b) ==
    IF b.pc \in {"none", "check"} THEN {}
    ELSE {b.nl, b.last_nl}
         \cup UNION {BlockIds(b.layers[j]) : j \in 1..Len(b.layers)}

C9_Published(b) ==
    /\ b.pc \in {"none", "check"} => b.layers = <<>>
    /\ b.pc # "done" => b.model = <<>>
    /\ b.pc = "done" => b.model = b.layers /\ Len(b.model) = b.num_repeats + 2

C9_AtomicConstruction ==
    /\ raised = "generator" => gen = NoGenerator
    /\ raised = "discriminator" => disc = NoDiscriminator
    /\ C9_Published(gen)
    /\ C9_Published(disc)
    /\ \A id \in FirstFreeId..(nextId - 1) : id \in HeldBy(gen) \cup HeldBy(disc)

C9_Witness ==
    /\ raised = "generator"
    /\ gen = NoGenerator
    /\ disc.pc = "done"
    /\ nextId > FirstFreeId

(* C10 as stated: no component object (convolution, normalization,         *)
(* activation) belongs to two models or appears at two positions of one.   *)
Positions ==
    {<<"generator", j>> : j \in 1..Len(gen.model)}
        \cup {<<"discriminator", j>> : j \in 1..Len(disc.model)}

BlockAt(p) == IF p[1] = "generator" THEN gen.model[p[2]] ELSE disc.model[p[2]]

LayerIds(L) == BlockIds(L) \ {L.act}

C10_Original ==
    \A p, q \in Positions :
        p # q => BlockIds(BlockAt(p)) \cap BlockIds(BlockAt(q)) = {}

(* C10 amended: no convolution, normalization or container object belongs  *)
(* to two models or appears at two positions of one, and none is an        *)
(* activation; an activation a constructor created itself stays in its own *)
(* model.  One activation object serves every non-final block of a model,  *)
(* and a caller-supplied one every model built with it.                    *)
C10_LayersExclusive ==
    /\ \A p \in Positions :
          /\ Cardinality(LayerIds(BlockAt(p)))
                = (IF BlockAt(p).norm = None THEN 2 ELSE 3)
          /\ \A q \in Positions :
                /\ BlockAt(q).act \notin LayerIds(BlockAt(p))
                /\ p # q => LayerIds(BlockAt(p)) \cap LayerIds(BlockAt(q)) = {}
                /\ BlockAt(p).act = BlockAt(q).act /\ p[1] # q[1]
                      => BlockAt(p).act \in CallerActs
    /\ gen.pc = "done"
          => \A j \in 1..(Len(gen.model) - 1) : gen.model[j].act = gen.nl
    /\ disc.pc = "done"
          => \A j \in 1..(Len(disc.model) - 1) : disc.model[j].act = disc.nl

C10_Witness ==
    /\ gen.pc = "done"
    /\ disc.pc = "done"
    /\ gen.args.nonlinearity = 1
    /\ disc.args.last_nonlinearity = 1
    /\ gen.model[1].act = disc.model[Len(disc.model)].act
    /\ gen.model[1].act = gen.model[2].act

====
